---- MODULE Spec2Model ----
(***************************************************************************)
(* The interactive loop of frospy.spectrum.spectrum_commandline.run():     *)
(* the state container `main`, the local `pick`, and one action per step   *)
(* of an iteration of `while True`.                                        *)
(***************************************************************************)
EXTENDS Integers, Sequences, FiniteSets, TLC

\* ---------------------------------------------------------------- bounds

\* Number of stations in the data file read by read_data.
MaxStations == 2
\* The value of a threshold that is set and not zero.
MaxVal == 1
\* Largest number of picked segments of one station in the segment file.
MaxPicks == 1

\* ------------------------------------------------------- values and None

\* Python's None for an optional value; a value v that is set is <<v>>.
None == << >>

Some(v) == <<v>>

\* Python truthiness of an optional number: None and 0 are false.
Truthy(o) == o # None /\ o[1] # 0

Stations == 1 .. MaxStations

\* A threshold the user sets is zero or positive.
Values == {0, MaxVal}

Option(S) == {None} \cup {Some(v) : v \in S}

\* Time windows [tw1, tw2] in hours.  A window that is not set is None.
ArgWindow == <<5, 60>>

UserWindow == <<3, 40>>

QWindow == <<1, 20>>

\* The time window of the k-th pick (0-based) of station s.
PickWindow(s, k) == <<10 * s + k, 10 * s + k + 30>>

\* ------------------------------------------------------------- sequences

\* The subsequence of seq whose elements are in S (Stream.select).
RECURSIVE Filter(_, _)
Filter(seq, S) ==
    IF seq = << >> THEN << >>
    ELSE IF Head(seq) \in S THEN <<Head(seq)>> \o Filter(Tail(seq), S)
         ELSE Filter(Tail(seq), S)

\* Insertion of pick p into a list sorted by fw2 (stable).
RECURSIVE InsertByFw2(_, _)
InsertByFw2(p, seq) ==
    IF seq = << >> THEN <<p>>
    ELSE IF p.fw2 < Head(seq).fw2 THEN <<p>> \o seq
         ELSE <<Head(seq)>> \o InsertByFw2(p, Tail(seq))

\* main.segments.sort(['fw2'])
RECURSIVE SortByFw2(_)
SortByFw2(seq) ==
    IF seq = << >> THEN << >>
    ELSE InsertByFw2(seq[Len(seq)], SortByFw2(SubSeq(seq, 1, Len(seq) - 1)))

\* main.segments.select(station=s)
SelectStation(segs, s) == SelectSeq(segs, LAMBDA p : p.station = s)

\* Python indexing seq[k] with a possibly negative k: TRUE iff no IndexError.
InRange(seq, k) == -Len(seq) <= k /\ k < Len(seq)

\* seq[k] for an index that is in range (0-based, negative from the end).
At(seq, k) == IF k >= 0 THEN seq[k + 1] ELSE seq[Len(seq) + k + 1]

\* ---------------------------------------------------------- input files

\* fw2 of the k-th pick of station s: the file lists the picks by station,
\* which is not the order of fw2.
PickFw2(s, k) == 10 * (MaxStations - s) + k

Pick(s, k) == [station |-> s, tw |-> PickWindow(s, k), fw2 |-> PickFw2(s, k)]

\* The picks of stations s..MaxStations, cnt[s] picks for station s.
RECURSIVE PicksFrom(_, _)
PicksFrom(s, cnt) ==
    IF s > MaxStations THEN << >>
    ELSE [k \in 1 .. cnt[s] |-> Pick(s, k - 1)] \o PicksFrom(s + 1, cnt)

\* The contents of the segment file (load_segments([main.segment_file])):
\* station s has s % (MaxPicks + 1) picks, so that there are stations with
\* picks and stations without.
SegmentFiles == {PicksFrom(1, [s \in Stations |-> s % (MaxPicks + 1)])}

\* What a search string can match: one station, or all of them.
Patterns == {{s} : s \in Stations} \cup {Stations}

\* The keyword arguments run() is called with.
Iargs ==
    [tw : {None, ArgWindow},
     min_snr : Option(Values),
     max_mf : Option(Values),
     segment_file : Option(SegmentFiles),
     syn : Option({1}),
     nowindow : BOOLEAN,
     search : Option(Patterns)]

\* ------------------------------------------------------------------ state

VARIABLES
    main,   \* the AttribDict threaded through the loop
    pick,   \* the local `pick` of run()
    pc,     \* the place run() is at
    log,    \* what the last iteration of the loop did
    prev,   \* what brought run() to the place it is at
    ret     \* how run() left the loop and what it returned

vars == <<main, pick, pc, log, prev, ret>>

\* run() has been entered: main = AttribDict(iargs).
Init ==
    /\ main \in Iargs
    /\ pick = None
    /\ pc = "start"
    /\ log = {}
    /\ prev = "run"
    /\ ret = [exit |-> "none", value |-> None]

\* ------------------------------------------------------- initialisation

set_defaults_init_main(m) ==
    [recalc |-> TRUE,
     segments |-> None,
     mf |-> None,
     tw_org |-> IF m.tw # None THEN m.tw ELSE None,
     qwindow |-> None,
     min_snr |-> None,
     max_mf |-> None,
     set_seg_tw |-> TRUE,
     i |-> 0,
     i_old |-> None,
     j |-> 0] @@ m

\* main.segments = load_segments([main.segment_file]) when a file is given.
LoadSegments(m) ==
    IF m.segment_file # None
    THEN [m EXCEPT !.segments = Some(m.segment_file[1])]
    ELSE m

\* read_data(data, main): the stream of n stations and its working copy; the
\* data file has MaxStations stations, or none.
read_data(n, m) ==
    [st |-> [k \in 1 .. n |-> k],
     st_work |-> [k \in 1 .. n |-> k],
     tr |-> None,
     spec |-> None] @@ m

\* search_stream(main, pattern): the working stream becomes the stations that
\* match, the index of the station the search started from is kept in i_old.
search_stream(m, pattern) ==
    [m EXCEPT !.st_work = Filter(m.st, pattern),
              !.i_old = Some(m.i),
              !.i = 0]

\* The keyword arguments that run() does not read after line 106 are not
\* carried through the loop.
LoopFields(m) == [f \in DOMAIN m \ {"segment_file", "search"} |-> m[f]]

\* Lines 83-106 of run(): defaults, pick file, data, initial search.
Run(n) ==
    /\ pc = "start"
    /\ LET m0 == set_defaults_init_main(main)
           m1 == LoadSegments(m0)
           m2 == read_data(n, m1)
       IN  main' = LoopFields(IF m2.search # None
                              THEN search_stream(m2, m2.search[1])
                              ELSE m2)
    /\ pick' = None
    /\ pc' = "while"
    /\ prev' = "run"
    /\ UNCHANGED <<log, ret>>

\* ------------------------------------------------- one iteration's steps

\* An iteration in progress: main, pick, what it did and how it has ended
\* ("running" while it has not).
Frame(m, p) == [main |-> m, pick |-> p, log |-> {}, outcome |-> "running"]

Did(f, events) == [f EXCEPT !.log = @ \cup events]

\* Lines 122-126: the end of a search scope.
end_of_search_scope(m) ==
    [m EXCEPT !.st_work = m.st,
              !.i = m.i_old[1],
              !.i_old = None]

\* Line 132 had it gone back to the last station instead of the first.
end_of_file_last(m) == [m EXCEPT !.i = Len(m.st_work) - 1]

\* Line 132: the end of the working stream.
end_of_file(m) == [m EXCEPT !.i = 0]

\* Lines 109-132: the branches at the head of the loop.
loop_head(f) ==
    LET m == f.main
    IN  IF Len(m.st_work) = 0
        THEN [Did(f, {"No data", "quit_spectrum"}) EXCEPT !.outcome = "No data"]
        ELSE IF m.i >= Len(m.st_work) /\ m.i_old # None
        THEN [Did(f, {"Reached end of search-scope"})
                 EXCEPT !.main = end_of_search_scope(m)]
        ELSE IF m.i >= Len(m.st_work)
        THEN [Did(f, {"Reached end of file"}) EXCEPT !.main = end_of_file(m)]
        ELSE f

\* Line 135: main.tr = main.st_work[main.i]; an IndexError leaves run().
select_trace(f) ==
    LET m == f.main
    IN  IF f.outcome # "running" THEN f
        ELSE IF InRange(m.st_work, m.i)
        THEN [Did(f, {"select"})
                 EXCEPT !.main = [m EXCEPT !.tr = Some(At(m.st_work, m.i))]]
        ELSE [f EXCEPT !.outcome = "IndexError"]

\* The number of picks of the current station (maxj of line 139).
MaxJ(m) == Len(SelectStation(m.segments[1], m.tr[1]))

\* Lines 138-144 had line 140 read `main.j > maxj`.
wrap_segments_past(m) ==
    LET sorted == [m EXCEPT !.segments = Some(SortByFw2(m.segments[1]))]
        maxj == MaxJ(sorted)
    IN  IF sorted.j > maxj /\ maxj # 0
        THEN [sorted EXCEPT !.j = 0]
        ELSE sorted

\* Lines 138-144: sort the segments, wrap main.j at the station's picks.
wrap_segments(m) ==
    LET sorted == [m EXCEPT !.segments = Some(SortByFw2(m.segments[1]))]
        maxj == MaxJ(sorted)
    IN  IF sorted.j >= maxj /\ maxj # 0
        THEN [sorted EXCEPT !.j = 0]
        ELSE sorted

\* Lines 137-144: the segments of the station, when a segment set is loaded.
segments(f) ==
    IF f.outcome # "running" \/ f.main.segments = None THEN f
    ELSE [Did(f, IF f.main.j >= MaxJ(f.main) /\ MaxJ(f.main) # 0
                 THEN {"Reached end of segments"} ELSE {})
             EXCEPT !.main = wrap_segments(f.main)]

\* Lines 164-180 had the except clause taken the first pick of the file.
lookup_pick_first(m) ==
    IF m.segments = None THEN None
    ELSE LET sel == SelectStation(m.segments[1], m.tr[1])
         IN  IF InRange(sel, m.j) THEN Some(At(sel, m.j))
             ELSE IF m.segments[1] # << >> THEN Some(m.segments[1][1])
             ELSE None

\* Lines 164-180: the pick of the station at main.j, None on an IndexError.
lookup_pick(m) ==
    IF m.segments = None THEN None
    ELSE LET sel == SelectStation(m.segments[1], m.tr[1])
         IN  IF InRange(sel, m.j) THEN Some(At(sel, m.j)) ELSE None

\* timewindow(main.tr, [None]): the window the user is asked for.
timewindow(m) == [m EXCEPT !.tw = UserWindow, !.tw_org = UserWindow]

\* Lines 160-199 without line 199, main.qwindow = None.
time_window_keep_q(m, p) ==
    LET m1 == IF m.tw_org # None THEN [m EXCEPT !.tw = m.tw_org] ELSE m
        m2 == IF p # None /\ m1.set_seg_tw
              THEN [m1 EXCEPT !.tw = p[1].tw]
              ELSE m1
        m3 == IF m2.tw = None THEN timewindow(m2) ELSE m2
    IN  IF m3.qwindow # None
        THEN [m3 EXCEPT !.tw = m3.qwindow]
        ELSE m3

\* Lines 160-199: the time window of the spectrum, p the pick looked up.
time_window(m, p) ==
    LET m1 == IF m.tw_org # None THEN [m EXCEPT !.tw = m.tw_org] ELSE m
        m2 == IF p # None /\ m1.set_seg_tw
              THEN [m1 EXCEPT !.tw = p[1].tw]
              ELSE m1
        m3 == IF m2.tw = None THEN timewindow(m2) ELSE m2
    IN  IF m3.qwindow # None
        THEN [m3 EXCEPT !.tw = m3.qwindow, !.qwindow = None]
        ELSE m3

\* Lines 206-209: Spectrum(main.tr, main.tw[0], main.tw[1], ...).
Spectrum(m) == [station |-> m.tr[1], tw1 |-> m.tw[1], tw2 |-> m.tw[2]]

\* Lines 155-211: the body of `if main.recalc` up to the misfit block.
recalc(f) ==
    IF f.outcome # "running" \/ ~f.main.recalc THEN f
    ELSE LET p == lookup_pick(f.main)
             m == time_window(f.main, p)
         IN  [Did(f, {"Spectrum"}
                     \cup (IF f.main.segments # None /\ p = None
                           THEN {"No picked segments in file"} ELSE {})
                     \cup (IF p # None THEN {"Segment data"} ELSE {})
                     \cup (IF f.main.tw_org = None /\ m.tw_org # None
                           THEN {"timewindow"} ELSE {})
                     \cup (IF f.main.qwindow # None
                           THEN {"Timewindow set by Q-cycle"} ELSE {}))
                 EXCEPT !.pick = p,
                        !.main = [m EXCEPT !.spec = Some(Spectrum(m))]]

\* What signal2noise can return: below a positive threshold, at it, above it.
Measured == {0, MaxVal, MaxVal + 1}

\* What misfit can return for the first synthetic: a misfit above no
\* threshold, or one above every threshold.
Misfits == {0, MaxVal + 1}

\* remove_station(main, save_tmp=False): the current trace leaves the stream
\* and the working stream.
remove_station(m) ==
    [m EXCEPT !.st_work = Filter(m.st_work, Stations \ {m.tr[1]}),
              !.st = Filter(m.st, Stations \ {m.tr[1]})]

\* Lines 238-239: the station fails the SNR threshold.
below_min_snr(m, snr_t) == Truthy(m.min_snr) /\ snr_t < m.min_snr[1]

\* Lines 243-244: the first synthetic fails the misfit threshold.
above_max_mf(m, mf) == Truthy(m.max_mf) /\ mf[1] > m.max_mf[1]

\* Lines 216-229: the lines of mf_msg.
mf_msg(fwhm_ok) ==
    {"SNR", "Misfits"}
        \cup (IF fwhm_ok THEN {"SFWHMR", "SNR * SFWHMR"}
              ELSE {"SFWHMR: exception"})

\* Lines 234-235: main.mf follows the misfit when it changed.
update_mf(m, mf) == IF mf # m.mf THEN [m EXCEPT !.mf = mf] ELSE m

\* Lines 214-246 had the exception of signal2fwhm not been caught by a
\* handler of its own but ended the misfit block.
misfit_fwhm_fatal(f, snr_t, fwhm_ok, mf) ==
    IF f.outcome # "running" \/ ~f.main.recalc
       \/ ~(f.pick # None /\ f.main.syn # None)
    THEN f
    ELSE IF ~fwhm_ok THEN Did(f, {"SNR", "SFWHMR: exception"})
    ELSE LET g == [Did(f, mf_msg(fwhm_ok)) EXCEPT !.main = update_mf(@, mf)]
         IN  IF below_min_snr(g.main, snr_t)
             THEN [Did(g, {"remove_station at min_snr"})
                      EXCEPT !.main = remove_station(@),
                             !.outcome = "continue"]
             ELSE IF above_max_mf(g.main, mf)
             THEN [Did(g, {"remove_station at max_mf"})
                      EXCEPT !.main = remove_station(@),
                             !.outcome = "continue"]
             ELSE g

\* Lines 214-246: SNR and misfit of the pick, then the two thresholds.  snr_t
\* is what signal2noise returns, fwhm_ok whether signal2fwhm returns, mf what
\* misfit returns.
misfit(f, snr_t, fwhm_ok, mf) ==
    IF f.outcome # "running" \/ ~f.main.recalc
       \/ ~(f.pick # None /\ f.main.syn # None)
    THEN f
    ELSE LET g == [Did(f, mf_msg(fwhm_ok)) EXCEPT !.main = update_mf(@, mf)]
         IN  IF below_min_snr(g.main, snr_t)
             THEN [Did(g, {"remove_station at min_snr"})
                      EXCEPT !.main = remove_station(@),
                             !.outcome = "continue"]
             ELSE IF above_max_mf(g.main, mf)
             THEN [Did(g, {"remove_station at max_mf"})
                      EXCEPT !.main = remove_station(@),
                             !.outcome = "continue"]
             ELSE g

\* Lines 248-249: plot_spectrum unless main.nowindow.
plot(f) ==
    IF f.outcome # "running" \/ ~f.main.recalc \/ f.main.nowindow THEN f
    ELSE Did(f, {"plot_spectrum"})

\* Lines 252-257 had the iteration gone back to `while True` instead of
\* calling process_input.
wait_for_input_skipped(f) ==
    IF f.outcome # "running" THEN f
    ELSE [f EXCEPT !.main = [@ EXCEPT !.recalc = TRUE], !.outcome = "continue"]

\* Lines 252-257: the iteration has come to process_input.
wait_for_input(f) ==
    IF f.outcome # "running" THEN f
    ELSE [f EXCEPT !.main = [@ EXCEPT !.recalc = TRUE], !.outcome = "input"]

\* What the misfit block can make of an iteration, over all that
\* signal2noise, signal2fwhm and misfit can return.
misfit_block(f) ==
    IF f.outcome # "running" \/ ~f.main.recalc
       \/ ~(f.pick # None /\ f.main.syn # None)
    THEN {f}
    ELSE {misfit(f, snr_t, fwhm_ok, <<mfv>>) :
             snr_t \in Measured, fwhm_ok \in BOOLEAN, mfv \in Misfits}

\* Lines 109-211: an iteration from `while True` to the misfit block.
to_misfit(m, p) ==
    {recalc(f3) : f3 \in
        {segments(f2) : f2 \in
            {select_trace(f1) : f1 \in {loop_head(Frame(m, p))}}}}

\* Lines 248-257: an iteration from the misfit block on.
after_misfit(f5) == {wait_for_input(f6) : f6 \in {plot(f5)}}

\* --------------------------------------------------------------- the loop

\* The locals of run() once run() has been left.
Gone == << >>

\* Lines 109-257, one iteration of `while True`: to process_input, back to
\* `while True` by `continue`, or out of the loop (no data, an IndexError).
Iteration ==
    /\ pc = "while"
    /\ \E f4 \in to_misfit(main, pick) :
       \E f5 \in misfit_block(f4) :
       \E f \in after_misfit(f5) :
          /\ main' = IF f.outcome \in {"input", "continue"} THEN f.main
                     ELSE Gone
          /\ pick' = IF f.outcome \in {"input", "continue"} THEN f.pick
                     ELSE Gone
          /\ log' = f.log
          /\ pc' = CASE f.outcome = "input" -> "input"
                     [] f.outcome = "continue" -> "while"
                     [] f.outcome = "No data" -> "returned"
                     [] f.outcome = "IndexError" -> "raised"
          /\ prev' = IF f.outcome = "input" THEN "select" ELSE f.outcome
          /\ ret' = CASE f.outcome = "No data" ->
                           [exit |-> "No data", value |-> f.main.segments]
                      [] f.outcome = "IndexError" ->
                           [exit |-> "IndexError", value |-> None]
                      [] OTHER -> ret

\* What a directive of the user does to main in process_input(pick, main).
\* No SNR is below 0, so that a min_snr of 0 is as good as None: the
\* directive for min_snr sets None or the positive threshold.
process_input(m) ==
    {[m EXCEPT !.i = k] : k \in 0 .. MaxStations}
        \cup {[m EXCEPT !.j = k] : k \in (0 - 1) .. MaxPicks}
        \cup {[m EXCEPT !.min_snr = v] : v \in {None, Some(MaxVal)}}
        \cup {[m EXCEPT !.max_mf = v] : v \in Option(Values)}
        \cup {[m EXCEPT !.qwindow = QWindow]}
        \cup {[m EXCEPT !.recalc = FALSE]}
        \cup {search_stream(m, pattern) : pattern \in Patterns}

\* Lines 257-266: the user's directive; None is quit, and run() returns
\* main.segments.
ProcessInput ==
    /\ pc = "input"
    /\ \/ /\ main' \in process_input(main)
          /\ pick' = pick
          /\ pc' = "while"
          /\ ret' = ret
       \/ /\ pc' = "returned"
          /\ ret' = [exit |-> "quit", value |-> main.segments]
          /\ main' = Gone
          /\ pick' = Gone
    /\ prev' = "process_input"
    /\ log' = {}

Next ==
    \/ \E n \in {0, MaxStations} : Run(n)
    \/ Iteration
    \/ ProcessInput

Spec == Init /\ [][Next]_vars

\* ------------------------------------------------------------ properties

\* The lines of the log that the threshold filter writes when it removes.
Removals == {"remove_station at min_snr", "remove_station at max_mf"}

\* The lines of mf_msg about signal2fwhm.
FwhmLines == {"SFWHMR", "SNR * SFWHMR", "SFWHMR: exception"}

\* An iteration of the loop that gets as far as line 135 and selects a trace.
Selects == pc = "while" /\ "select" \in log'

\* The last iteration removed its station by a threshold and went back to
\* `while True` by `continue`.
FilteredOut ==
    /\ prev = "continue"
    /\ log \cap Removals # {}
    /\ pick # None /\ main.syn # None
    /\ Truthy(main.min_snr) \/ Truthy(main.max_mf)
    /\ \A k \in 1 .. Len(main.st_work) : main.st_work[k] # main.tr[1]

\* C1, as the claim states it: between two consecutive selections of a
\* current trace there is a call of process_input, i.e. no iteration that
\* selects a trace is reached by `continue` from the iteration before.
C1_InputBetweenSelections == [][Selects => prev # "continue"]_vars

\* C1, amended: an iteration that selects a trace is the first one, or
\* follows a call of process_input, or follows an iteration in which the
\* threshold filter (min_snr / max_mf, with a pick and synthetics) removed
\* the station and continued without process_input.
C1_InputOrFilteredBetweenSelections ==
    [][Selects => (prev \in {"run", "process_input"} \/ FilteredOut)]_vars

\* C1: the filter has removed a station and the loop is about to select the
\* next one without a call of process_input in between.
C1_Witness ==
    /\ pc = "while" /\ FilteredOut
    /\ Len(main.st_work) > 0 /\ main.i < Len(main.st_work)

\* C2: an iteration that starts with a non-empty main.st_work, main.i at or
\* past its end and no search scope prints 'Reached end of file', selects
\* the first station of main.st_work with main.i = 0, and leaves main.st_work
\* as it is (but for the station a threshold removes later in the iteration).
C2_StationWrap ==
    [][(/\ pc = "while"
        /\ Len(main.st_work) > 0
        /\ main.i >= Len(main.st_work)
        /\ main.i_old = None)
       => (/\ pc' \in {"input", "while"}
           /\ "Reached end of file" \in log'
           /\ "select" \in log'
           /\ main'.i = 0
           /\ main'.tr = Some(main.st_work[1])
           /\ main'.st_work = IF log' \cap Removals = {} THEN main.st_work
                              ELSE Tail(main.st_work))]_vars

\* C2: the station index has wrapped and the first station is at the prompt.
C2_Witness ==
    /\ pc = "input"
    /\ "Reached end of file" \in log
    /\ main.i = 0
    /\ Len(main.st_work) > 1
    /\ main.tr = Some(main.st_work[1])

\* C3: in an iteration that selects a station, with a segment set loaded
\* and maxj > 0 picks for the station, main.j >= maxj is reset to 0 and any
\* other main.j is kept, so that main.j < maxj whenever main.j >= 0; with
\* maxj = 0 or no segment set, main.j is left as it is.
C3_SegmentWrap ==
    [][Selects =>
        IF main.segments # None
        THEN LET maxj == Len(SelectStation(main.segments[1], main'.tr[1]))
             IN  IF maxj > 0
                 THEN /\ main'.j = IF main.j >= maxj THEN 0 ELSE main.j
                      /\ main'.j >= 0 => main'.j < maxj
                 ELSE main'.j = main.j
        ELSE main'.j = main.j]_vars

\* C3: main.j was past the picks of the station and has been reset.
C3_Witness ==
    /\ pc = "input"
    /\ "Reached end of segments" \in log
    /\ main.j = 0
    /\ MaxJ(main) > 0

\* C4: in an iteration that recalculates, with a segment set loaded and no
\* pick of the selected station at index main.j, pick is None, the warning
\* 'No picked segments in file' is in the status message, no SNR or misfit
\* is computed, no station is removed, the spectrum is computed and the
\* iteration comes to process_input.
C4_MissingPickCaught ==
    [][(/\ Selects
        /\ main.recalc
        /\ main.segments # None
        /\ ~InRange(SelectStation(main.segments[1], main'.tr[1]), main'.j))
       => (/\ pick' = None
           /\ "No picked segments in file" \in log'
           /\ log' \cap {"SNR", "Misfits"} = {}
           /\ log' \cap Removals = {}
           /\ main'.st = main.st
           /\ "Spectrum" \in log'
           /\ main'.spec = Some(Spectrum(main'))
           /\ pc' = "input")]_vars

\* C4: a station without a pick at main.j is at the prompt with its spectrum.
C4_Witness ==
    /\ pc = "input"
    /\ "No picked segments in file" \in log
    /\ "Spectrum" \in log
    /\ pick = None
    /\ main.spec # None

\* The misfit block is entered in the iteration f has come from (line 214).
Entered(f) ==
    /\ f.outcome = "running"
    /\ f.main.recalc
    /\ f.pick # None /\ f.main.syn # None

\* C5: for every SNR and misfit of an iteration with a pick and synthetics
\* (the misfit block is entered), an iteration in which signal2fwhm raises
\* ends as the one in which it returns: the same main (main.mf included),
\* the same pick, the same way out (process_input or removal and continue)
\* and the same lines but for those about SFWHMR, where the text of the
\* exception stands.
C5_FwhmFailureAbsorbed ==
    pc = "while" =>
        \A f4 \in {f \in to_misfit(main, pick) : Entered(f)} :
        \A snr_t \in Measured, mfv \in Misfits :
        \A ok5 \in {misfit(f4, snr_t, TRUE, <<mfv>>)} :
        \A failed5 \in {misfit(f4, snr_t, FALSE, <<mfv>>)} :
        \A ok \in after_misfit(ok5), failed \in after_misfit(failed5) :
            /\ failed.main = ok.main
            /\ failed.pick = ok.pick
            /\ failed.outcome = ok.outcome
            /\ failed.log \ FwhmLines = ok.log \ FwhmLines
            /\ "SFWHMR: exception" \in failed.log
            /\ "Misfits" \in failed.log
            /\ failed.main.mf = <<mfv>>

\* C5: signal2fwhm has raised, and the misfit is there all the same.
C5_Witness ==
    /\ pc = "input"
    /\ "SFWHMR: exception" \in log
    /\ "Misfits" \in log
    /\ main.mf # None

\* C6, as the claim states it: in an iteration with a pick and synthetics,
\* if main.min_snr is set and the SNR is below it, or main.max_mf is set and
\* the first misfit is above it, the station is removed and not plotted, the
\* SNR test coming first; otherwise no station is removed and the station is
\* plotted unless nowindow.
C6_ThresholdFiltering ==
    pc = "while" =>
        \A f4 \in {f \in to_misfit(main, pick) : Entered(f)} :
        \A snr_t \in Measured, mfv \in Misfits, fwhm_ok \in BOOLEAN :
        \A f5 \in {misfit(f4, snr_t, fwhm_ok, <<mfv>>)} :
        \A f \in after_misfit(f5) :
            LET m == f4.main
                snr_low == m.min_snr # None /\ snr_t < m.min_snr[1]
                mf_high == m.max_mf # None /\ mfv > m.max_mf[1]
            IN  IF snr_low \/ mf_high
                THEN /\ f.log \cap Removals # {}
                     /\ f.main.st = Filter(m.st, Stations \ {m.tr[1]})
                     /\ "plot_spectrum" \notin f.log
                     /\ snr_low => "remove_station at min_snr" \in f.log
                ELSE /\ f.log \cap Removals = {}
                     /\ f.main.st = m.st
                     /\ "plot_spectrum" \in f.log <=> ~m.nowindow

\* C7, as the claim states it: min_snr and max_mf of the keyword arguments
\* are main.min_snr and main.max_mf when the loop starts.
C7_ThresholdsKept ==
    [][pc = "start" =>
        /\ main'.min_snr = main.min_snr
        /\ main'.max_mf = main.max_mf]_vars

\* C8, as the claim states it: line 135 never raises an IndexError, the
\* index is in range every time a current trace is selected.
C8_IndexInRange == pc # "raised"

\* C9, as the claim states it: run() is left only with 'No data' or with
\* process_input returning None, and returns main.segments.
C9_TwoExits ==
    pc \in {"returned", "raised"} => ret.exit \in {"No data", "quit"}

\* The window of the spectrum computed last.
UsedWindow(m) == <<m.spec[1].tw1, m.spec[1].tw2>>

\* An iteration of the loop that recalculates the spectrum.
Recalculates == pc = "while" /\ "Spectrum" \in log'

\* C10, as the claim states it: the window of the spectrum is main.qwindow
\* if set, else the pick's if there is a pick and set_seg_tw, else
\* main.tw_org if set, else what is in main.tw; and main.qwindow is None
\* afterwards.
C10_WindowPrecedence ==
    [][Recalculates =>
        /\ UsedWindow(main') =
             IF main.qwindow # None THEN main.qwindow
             ELSE IF pick' # None /\ main.set_seg_tw THEN pick'[1].tw
             ELSE IF main.tw_org # None THEN main.tw_org
             ELSE main.tw
        /\ main'.qwindow = None]_vars

\* C10, amended: the window of the spectrum is main.qwindow if set, else the
\* pick's if there is a pick and set_seg_tw, else main.tw_org if set, else
\* what is in main.tw if that is not None (which can be the window of an
\* earlier pick or of an earlier Q-cycle), else the window timewindow() asks
\* the user for, which also becomes main.tw_org; main.tw is the window used,
\* and main.qwindow is None afterwards.
C10_WindowPrecedenceOrPrompt ==
    [][Recalculates =>
        /\ UsedWindow(main') =
             IF main.qwindow # None THEN main.qwindow
             ELSE IF pick' # None /\ main.set_seg_tw THEN pick'[1].tw
             ELSE IF main.tw_org # None THEN main.tw_org
             ELSE IF main.tw # None THEN main.tw
             ELSE UserWindow
        /\ main'.tw = UsedWindow(main')
        /\ main'.tw_org =
             IF main.tw_org = None /\ main.tw = None
                /\ ~(pick' # None /\ main.set_seg_tw)
             THEN UserWindow ELSE main.tw_org
        /\ main'.qwindow = None]_vars

\* C10: a window of the Q-cycle has been used for the spectrum at the
\* prompt, and main.qwindow is None again.
C10_Witness ==
    /\ pc = "input"
    /\ "Timewindow set by Q-cycle" \in log
    /\ main.qwindow = None
    /\ UsedWindow(main) = QWindow

====
